---- MODULE Spec2Model ----
(***************************************************************************)
(* A model of the resolution and decoding engine of the `sol` explorer:    *)
(*   - transaction/mod.rs : handler, parse_transaction                     *)
(*   - account/mod.rs     : parse_account                                  *)
(*   - account/token.rs   : TokenProgramAccount::parse                     *)
(*   - account/system.rs  : SystemAccount::parse,                          *)
(*                          get_symbol_for_token_account                   *)
(*   - block/mod.rs       : handler, ParsedBlock::new                      *)
(*   - utils.rs           : display_balance                                *)
(* Every subsystem has its own variables and its own specification; a      *)
(* specification leaves the variables of the other subsystems untouched.   *)
(* A Rust panic (unwrap / expect / index out of range) is modelled as the  *)
(* control state "panic", from which nothing more happens.                 *)
(***************************************************************************)
EXTENDS Integers, Sequences, FiniteSets, TLC

VARIABLES
    \* ---- transaction/mod.rs
    tx_pc,        \* position of handler / parse_transaction
    envelope,     \* EncodedConfirmedTransactionWithStatusMeta: which options are Some
    message,      \* the decoded VersionedMessage (NoMessage before decode)
    accounts,     \* Vec<AccountMeta> being built
    li,           \* 1-based position of the next address-table lookup
    tx_result,    \* "pending" | "None" | "Some" | "panic": what parse_transaction gave
    tx_decoded,   \* history: encoded_transaction.decode() was called
    tx_fetches,   \* history: number of get_account_data calls issued so far
    tx_outcomes,  \* history: per processed lookup, "ok" | "fetch_err" | "bad_data"
    tx_origin,    \* history: per appended entry, the lookup / group / index it came from
    \* ---- account/mod.rs, account/token.rs, account/system.rs
    acc_pc,         \* position of handler / parse_account
    account,        \* the fetched Account: owner and the shape of its data
    sys_res,        \* what SystemAccount::parse returned: "unset" | "None" | "Some"
    tok_res,        \* what TokenProgramAccount::parse returned (variant "unset" before)
    parsed,         \* the ParsedAccount variant parse_account returned ("pending" before)
    token_accounts, \* Vec<TokenAccountBalance> of SystemAccount::parse
    queue,          \* the token accounts of the current list not yet pulled from the stream
    inflight,       \* the symbol resolutions buffer_unordered holds: [key, phase]
    acc_cause,      \* "none", or the unwrap that panicked
    sym_hist,       \* history: per finished resolution, what its fetches gave
    tok_log,        \* history: the unpack attempts and fetches of TokenProgramAccount::parse
    tok_mint,       \* history: what its fetch of the mint gave (NoFetch before)
    listed,         \* history: the token accounts the list queries returned, in order
    \* ---- account/system.rs, the two streams with the resolutions counted
    fan_pc,         \* "keg_list" | "keg_stream" | "t22_list" | "t22_stream" | "sorted" | "panic"
    fan_queue,      \* futures of the current stream not yet pulled
    fan_meta,       \* resolutions in flight that wait for the metadata-record fetch
    fan_mint,       \* resolutions in flight that wait for the mint fetch
    fan_collected,  \* token_accounts.len()
    \* ---- block/mod.rs
    blk_pc,         \* "loop" | "done" | "panic"
    blk_args,       \* crate::Block: start, end
    slot,           \* the slot of the outer loop
    attempt,        \* the attempt of the inner loop, 1..=5
    blk_fetches,    \* history: per slot, the get_block_with_config calls made
    blk_notices,    \* history: per slot, the "failed to fetch block, attempt" lines
    blk_gaveup,     \* history: the slots that got the "failed to fetch block" line
    blk_shown,      \* per slot, the header table printed for it (NoDisplay if none)
    blk_order,      \* history: the slots in the order of their first fetch
    blk_cause,      \* "none", or the unwrap that panicked
    blk_last,       \* history: the block fetched last, and its slot
    \* ---- utils.rs
    bal_pc,         \* "idle" | "call" | "done": display_balance not called / called / returned
    bal_atoms,      \* its argument atoms: u64
    bal_decimals,   \* its argument decimals: usize (a u8 cast by the callers)
    bal_out         \* the String it returned, as a sequence of characters

txVars == <<tx_pc, envelope, message, accounts, li, tx_result, tx_decoded,
            tx_fetches, tx_outcomes, tx_origin>>

accVars == <<acc_pc, account, sys_res, tok_res, parsed, token_accounts, queue,
             inflight, acc_cause, sym_hist, tok_log, tok_mint, listed>>

fanVars == <<fan_pc, fan_queue, fan_meta, fan_mint, fan_collected>>

blkVars == <<blk_pc, blk_args, slot, attempt, blk_fetches, blk_notices, blk_gaveup,
             blk_shown, blk_order, blk_cause, blk_last>>

balVars == <<bal_pc, bal_atoms, bal_decimals, bal_out>>

vars == <<txVars, accVars, fanVars, blkVars, balVars>>

\* what a step of one subsystem leaves alone
TxFrame == UNCHANGED <<accVars, fanVars, blkVars, balVars>>
AccFrame == UNCHANGED <<txVars, fanVars, blkVars, balVars>>
FanFrame == UNCHANGED <<txVars, accVars, blkVars, balVars>>
BlkFrame == UNCHANGED <<txVars, accVars, fanVars, balVars>>
BalFrame == UNCHANGED <<txVars, accVars, fanVars, blkVars>>

-----------------------------------------------------------------------------
(* Bounds of the model.                                                    *)

\* most static account keys in a message
MaxStatic == 2
\* most address-table lookups in a V0 message
MaxLookups == 2

\* the index lists (Vec<u8>) a lookup may declare for one group
IndexLists == {<< >>, <<0>>, <<1, 0>>}
\* the lengths of a fetched lookup table's address array
TableLens == {1, 2}

\* most token accounts a wallet owns, over both token programs
MaxAccounts == 3
\* the symbols a metadata source may hold, as byte strings: "B", "a"
Symbols == {<<66>>, <<97>>}
\* the decimals a mint may declare
Decimals == {0, 9}
\* the extension lists a Token22 mint may declare
ExtensionLists == {<< >>, <<"MetadataPointer", "TokenMetadata">>}

\* most token accounts one list query returns, in the counted streams
MaxFan == 12

\* the highest slot a block scan may name
MaxSlot == 1
\* most transactions in a fetched block
MaxTxs == 2
\* the instruction lists of a transaction, by target program
InstructionLists == {<< >>, <<"vote">>, <<"other">>, <<"vote", "vote">>}
\* the compute units one transaction may have consumed
ComputeUnits == {1, 2}

\* the raw amounts handed to display_balance: every amount up to MaxAtoms, and
\* some longer ones (one, two and three separators; the spec's example)
MaxAtoms == 1100
BigAtoms == {99999, 999999, 1000000, 1234567, 1234567890, 2147483647}
\* the highest decimals handed to display_balance
MaxDecimals == 10

-----------------------------------------------------------------------------
(* Helpers.                                                                *)

RECURSIVE SumSeq(_)
SumSeq(s) == IF s = << >> THEN 0 ELSE Head(s) + SumSeq(Tail(s))

RECURSIVE Flatten(_)
Flatten(ss) == IF ss = << >> THEN << >> ELSE Head(ss) \o Flatten(Tail(ss))

SeqsUpTo(S, n) == UNION {[1..k -> S] : k \in 0..n}

-----------------------------------------------------------------------------
(* transaction/mod.rs                                                      *)

NoMessage == [kind |-> "none"]

\* A pubkey is named by where it comes from: static key i of the message is
\* [tbl |-> 0, pos |-> i]; address idx of lookup table t is [tbl |-> t, pos |-> idx].
StaticKey(i) == [tbl |-> 0, pos |-> i]
TableAddress(t, idx) == [tbl |-> t, pos |-> idx]

\* MessageHeader values that pass the sanitize() check made by
\* EncodedTransaction::decode: at least one signer, the fee payer writable,
\* and the three counts within the key list.
Headers ==
    {h \in [nkeys : 1..MaxStatic, nsig : 1..MaxStatic,
            nros : 0..MaxStatic, nrou : 0..MaxStatic] :
        /\ h.nsig <= h.nkeys
        /\ h.nros < h.nsig
        /\ h.nsig + h.nrou <= h.nkeys}

\* MessageAddressTableLookup: account_key, writable_indexes, readonly_indexes.
\* sanitize() rejects a lookup that loads no account.
LookupsOf(n) ==
    {ls \in [1..n -> [writable_indexes : IndexLists, readonly_indexes : IndexLists]] :
        \A i \in 1..n : ls[i].writable_indexes \o ls[i].readonly_indexes # << >>}

\* The messages decode() can give.  demoted is the set of (0-based) key
\* positions whose write lock the SDK demotes: a builtin program or sysvar key,
\* or a key invoked as a program while the upgradeable loader is absent.  The
\* fee payer (position 0) cannot be invoked as a program.
Messages ==
    {[kind |-> k, nkeys |-> h.nkeys, nsig |-> h.nsig, nros |-> h.nros,
      nrou |-> h.nrou, demoted |-> d, lookups |-> ls] :
        k \in {"Legacy", "V0"}, h \in Headers,
        d \in SUBSET (1..(MaxStatic - 1)), ls \in UNION {LookupsOf(n) : n \in 0..MaxLookups}}

ValidMessage(m) ==
    /\ m.demoted \subseteq 1..(m.nkeys - 1)
    /\ (m.kind = "Legacy" => m.lookups = << >>)

\* is_signer off by one
IsSignerInclusive(m, i) == i <= m.nsig

\* Message::is_signer (legacy and versioned): i < num_required_signatures
IsSigner(m, i) == i < m.nsig

\* Message::is_writable_index: the header's two writable ranges
IsWritableIndex(m, i) ==
    \/ i < m.nsig - m.nros
    \/ (i >= m.nsig /\ i < m.nkeys - m.nrou)

\* legacy::Message::is_writable / v0::Message::is_maybe_writable:
\* the header range, less the keys the SDK demotes
IsWritable(m, i) == IsWritableIndex(m, i) /\ i \notin m.demoted

\* AccountMeta::new(pubkey, is_signer) / AccountMeta::new_readonly(pubkey, is_signer)
AccountMetaNew(pubkey, signer) ==
    [pubkey |-> pubkey, is_signer |-> signer, is_writable |-> TRUE]
AccountMetaNewReadonly(pubkey, signer) ==
    [pubkey |-> pubkey, is_signer |-> signer, is_writable |-> FALSE]

\* account_keys.iter().enumerate().map(...).collect()
StaticAccounts(m) ==
    [j \in 1..m.nkeys |->
        IF IsWritable(m, j - 1)
        THEN AccountMetaNew(StaticKey(j - 1), IsSigner(m, j - 1))
        ELSE AccountMetaNewReadonly(StaticKey(j - 1), IsSigner(m, j - 1))]

\* alt.addresses[idx as usize] is in range for every declared index
IndexesInRange(lookup, len) ==
    \A k \in 1..Len(lookup.writable_indexes \o lookup.readonly_indexes) :
        (lookup.writable_indexes \o lookup.readonly_indexes)[k] < len

\* Expand without its second loop (the read-only indexes are forgotten)
ExpandWritableOnly(t, lookup) ==
    [k \in 1..Len(lookup.writable_indexes) |->
        AccountMetaNew(TableAddress(t, lookup.writable_indexes[k]), FALSE)]

\* Expand with AccountMeta::new used in both loops
ExpandAllWritable(t, lookup) ==
    [k \in 1..Len(lookup.writable_indexes \o lookup.readonly_indexes) |->
        AccountMetaNew(
            TableAddress(t, (lookup.writable_indexes \o lookup.readonly_indexes)[k]),
            FALSE)]

\* Expand with its two loops in the other order
ExpandReadonlyFirst(t, lookup) ==
    [k \in 1..Len(lookup.readonly_indexes) |->
        AccountMetaNewReadonly(TableAddress(t, lookup.readonly_indexes[k]), FALSE)]
    \o
    [k \in 1..Len(lookup.writable_indexes) |->
        AccountMetaNew(TableAddress(t, lookup.writable_indexes[k]), FALSE)]

\* the entries pushed for one resolved lookup: writable ones, then read-only ones
Expand(t, lookup) ==
    [k \in 1..Len(lookup.writable_indexes) |->
        AccountMetaNew(TableAddress(t, lookup.writable_indexes[k]), FALSE)]
    \o
    [k \in 1..Len(lookup.readonly_indexes) |->
        AccountMetaNewReadonly(TableAddress(t, lookup.readonly_indexes[k]), FALSE)]

\* history of Expand: where each pushed entry came from
ExpandOrigin(t, lookup) ==
    [k \in 1..Len(lookup.writable_indexes) |->
        [lookup |-> t, group |-> "w", idx |-> lookup.writable_indexes[k]]]
    \o
    [k \in 1..Len(lookup.readonly_indexes) |->
        [lookup |-> t, group |-> "r", idx |-> lookup.readonly_indexes[k]]]

TxInit ==
    /\ tx_pc = "fetch"
    /\ envelope = [meta |-> FALSE, block_time |-> FALSE, version |-> FALSE]
    /\ message = NoMessage
    /\ accounts = << >>
    /\ li = 1
    /\ tx_result = "pending"
    /\ tx_decoded = FALSE
    /\ tx_fetches = 0
    /\ tx_outcomes = << >>
    /\ tx_origin = << >>

\* handler: get_transaction_with_config(..).await.unwrap(); a failed fetch
\* panics in the handler before parse_transaction is called ("fetch_failed")
TxFetch ==
    /\ TxFrame
    /\ tx_pc = "fetch"
    /\ \/ /\ tx_pc' = "fetch_failed"
          /\ UNCHANGED envelope
       \/ /\ envelope' \in [meta : BOOLEAN, block_time : BOOLEAN, version : BOOLEAN]
          /\ tx_pc' = "parse"
    /\ UNCHANGED <<message, accounts, li, tx_result, tx_decoded, tx_fetches,
                   tx_outcomes, tx_origin>>

\* parse_transaction: the three let-else early returns
TxParse ==
    /\ TxFrame
    /\ tx_pc = "parse"
    /\ IF envelope.meta /\ envelope.block_time /\ envelope.version
       THEN /\ tx_pc' = "decode"
            /\ UNCHANGED tx_result
       ELSE /\ tx_pc' = "returned"
            /\ tx_result' = "None"
    /\ UNCHANGED <<envelope, message, accounts, li, tx_decoded, tx_fetches,
                   tx_outcomes, tx_origin>>

\* parse_transaction: decode().expect(..), then the static account list
TxDecode ==
    /\ TxFrame
    /\ tx_pc = "decode"
    /\ tx_decoded' = TRUE
    /\ \/ /\ tx_pc' = "panic"
          /\ tx_result' = "panic"
          /\ UNCHANGED <<message, accounts>>
       \/ \E m \in Messages :
            /\ ValidMessage(m)
            /\ message' = m
            /\ accounts' = StaticAccounts(m)
            /\ tx_pc' = IF m.kind = "V0" /\ m.lookups # << >>
                        THEN "lookups" ELSE "build"
            /\ UNCHANGED tx_result
    /\ UNCHANGED <<envelope, li, tx_fetches, tx_outcomes, tx_origin>>

\* parse_transaction: one iteration of `for lookup in lookups`
TxLookup ==
    /\ TxFrame
    /\ tx_pc = "lookups"
    /\ li <= Len(message.lookups)
    /\ tx_fetches' = tx_fetches + 1
    /\ \/ \E e \in {"fetch_err", "bad_data"} :
            /\ tx_outcomes' = Append(tx_outcomes, e)
            /\ li' = li + 1
            /\ tx_pc' = IF li + 1 > Len(message.lookups) THEN "build" ELSE "lookups"
            /\ UNCHANGED <<accounts, tx_origin, tx_result>>
       \/ \E len \in TableLens :
            IF IndexesInRange(message.lookups[li], len)
            THEN /\ accounts' = accounts \o Expand(li, message.lookups[li])
                 /\ tx_origin' = tx_origin \o ExpandOrigin(li, message.lookups[li])
                 /\ tx_outcomes' = Append(tx_outcomes, "ok")
                 /\ li' = li + 1
                 /\ tx_pc' = IF li + 1 > Len(message.lookups) THEN "build" ELSE "lookups"
                 /\ UNCHANGED tx_result
            ELSE /\ tx_pc' = "panic"
                 /\ tx_result' = "panic"
                 /\ tx_outcomes' = Append(tx_outcomes, "ok")
                 /\ UNCHANGED <<accounts, tx_origin, li>>
    /\ UNCHANGED <<envelope, message, tx_decoded>>

\* parse_transaction: Some(ParsedTransaction { .. })
TxBuild ==
    /\ TxFrame
    /\ tx_pc = "build"
    /\ tx_result' = "Some"
    /\ tx_pc' = "returned"
    /\ UNCHANGED <<envelope, message, accounts, li, tx_decoded, tx_fetches,
                   tx_outcomes, tx_origin>>

\* handler: parse_transaction(..).await.unwrap(); parsed_transaction.view()
TxUnwrap ==
    /\ TxFrame
    /\ tx_pc = "returned"
    /\ tx_pc' = IF tx_result = "Some" THEN "viewed" ELSE "panic"
    /\ UNCHANGED <<envelope, message, accounts, li, tx_result, tx_decoded,
                   tx_fetches, tx_outcomes, tx_origin>>

-----------------------------------------------------------------------------
(* account/mod.rs, account/token.rs, account/system.rs                     *)

\* Option<String>
NoSymbol == [some |-> FALSE, str |-> << >>]
SomeSymbol(s) == [some |-> TRUE, str |-> s]

\* account.owner, and what account.data decodes as:
\*   "account"     165 bytes, an initialized token account (Pack::unpack of
\*                 spl_token / spl_token_2022 state::Account succeeds)
\*   "account_ext" a Token22 token account followed by extensions
\*   "mint"        82 bytes, an initialized mint
\*   "mint_ext"    a Token22 mint followed by extensions
\*   "junk"        anything else
Owners == {"system", "tokenkeg", "token22", "other"}
Shapes == {"account", "account_ext", "mint", "mint_ext", "junk"}
NoAccount == [owner |-> "none", shape |-> "none", extensions |-> << >>]
Accounts ==
    {[owner |-> o, shape |-> sh, extensions |-> x] :
        o \in Owners, sh \in Shapes, x \in ExtensionLists}
ValidAccount(a) == a.shape # "mint_ext" => a.extensions # << >>

\* what a fetch of the token-metadata-program record gives:
\*   "err"  get_account_data failed (no such account, or the network)
\*   "bad"  the data came and Metadata::from_bytes fails on it
\*   "ok"   the record, with its symbol
MetaOutcomes ==
    {[kind |-> "err", symbol |-> << >>], [kind |-> "bad", symbol |-> << >>]}
    \cup {[kind |-> "ok", symbol |-> s] : s \in Symbols}

\* what a fetch of a mint gives: "err" (fetch failed), "bad" (does not unpack),
\* or the mint, with its decimals and its inline TokenMetadata symbol if any
MintOutcomes ==
    {[kind |-> k, decimals |-> 0, inline |-> NoSymbol] : k \in {"err", "bad"}}
    \cup {[kind |-> "ok", decimals |-> d, inline |-> i] :
            d \in Decimals, i \in {NoSymbol} \cup {SomeSymbol(s) : s \in Symbols}}

\* no fetch of a mint was made
NoFetch == [kind |-> "none", decimals |-> 0, inline |-> NoSymbol]

\* a mint of the tokenkeg program is 82 bytes and holds no extension; a Token22
\* mint may hold the TokenMetadata extension
MintOutcomesOf(gen) ==
    {o \in MintOutcomes : gen = "keg" => o.inline = NoSymbol}

\* the generation of the token program that owns an account
GenOf(owner) == IF owner = "tokenkeg" THEN "keg" ELSE "t22"

\* the mint fetches of get_symbol_for_token_account, which reads no decimals
SymMintOutcomes == {o \in MintOutcomes : o.decimals = 0}

\* history of one symbol resolution:
\*   gen            the token program of the mint
\*   meta           "ok" | "err": what the fetch of the metadata record gave
\*   record         the symbol of the record, if the record was decoded
\*   mint           "none" (not fetched for the resolution) | "plain" | "inline"
\*   tried_inline   get_extension_bytes::<TokenMetadata>() was called
\*   inline_fetches the fetches issued to reach the inline source
\*   symbol         the symbol the resolution settled on
SymRecord(key, gen, meta, record, mint, tried, fetches, symbol) ==
    [key |-> key, gen |-> gen, meta |-> meta, record |-> record, mint |-> mint,
     tried_inline |-> tried, inline_fetches |-> fetches, symbol |-> symbol]

NoTokRes == [variant |-> "unset", decimals |-> 0, symbol |-> NoSymbol,
             extensions |-> << >>]
TokRes(v, d, sym, x) == [variant |-> v, decimals |-> d, symbol |-> sym,
                         extensions |-> x]

\* buffer_unordered(10)
BufferLimit == 10

\* str::cmp: byte-wise lexicographic order
RECURSIVE StrCmp(_, _)
StrCmp(a, b) ==
    IF a = << >> /\ b = << >> THEN "Equal"
    ELSE IF a = << >> THEN "Less"
    ELSE IF b = << >> THEN "Greater"
    ELSE IF Head(a) < Head(b) THEN "Less"
    ELSE IF Head(a) > Head(b) THEN "Greater"
    ELSE StrCmp(Tail(a), Tail(b))

\* the comparator with its first two arms swapped
SymbolCmpNoneFirst(a, b) ==
    IF a.symbol.some /\ ~b.symbol.some THEN "Greater"
    ELSE IF ~a.symbol.some /\ b.symbol.some THEN "Less"
    ELSE IF a.symbol.some /\ b.symbol.some THEN StrCmp(a.symbol.str, b.symbol.str)
    ELSE "Equal"

\* the comparator handed to sort_by
SymbolCmp(a, b) ==
    IF a.symbol.some /\ ~b.symbol.some THEN "Less"
    ELSE IF ~a.symbol.some /\ b.symbol.some THEN "Greater"
    ELSE IF a.symbol.some /\ b.symbol.some THEN StrCmp(a.symbol.str, b.symbol.str)
    ELSE "Equal"

\* slice::sort_by is a stable sort: equal elements keep their order
RECURSIVE InsertSorted(_, _)
InsertSorted(s, x) ==
    IF s = << >> THEN <<x>>
    ELSE IF SymbolCmp(x, Head(s)) = "Less" THEN <<x>> \o s
    ELSE <<Head(s)>> \o InsertSorted(Tail(s), x)

RECURSIVE SortBy(_)
SortBy(s) ==
    IF s = << >> THEN << >>
    ELSE InsertSorted(SortBy(SubSeq(s, 1, Len(s) - 1)), s[Len(s)])

\* the token accounts a list query returns: n keyed accounts of one program
TokenKey(gen, i) == [gen |-> gen, i |-> i]
ListResult(gen, n) == [i \in 1..n |-> TokenKey(gen, i)]

\* parse_keyed_account_to_token / TokenAccountBalance::parse_validated_json
TokenAccountBalance(key, symbol) ==
    [key |-> key, mint |-> key, program |-> "spl-token", symbol |-> symbol]

Min(a, b) == IF a < b THEN a ELSE b

\* a stream that lets one future more in
RoomOneMore(n) == IF n < BufferLimit + 1 THEN BufferLimit + 1 - n ELSE 0

\* BufferUnordered::poll_next: while in_progress_queue.len() < max, pull the
\* next future from the stream; its first poll issues the metadata fetch
Room(n) == IF n < BufferLimit THEN BufferLimit - n ELSE 0
Pulled(q, infl) == Min(Len(q), Room(Cardinality(infl)))
FillInflight(q, infl) ==
    infl \cup {[key |-> q[k], phase |-> "meta"] : k \in 1..Pulled(q, infl)}
FillQueue(q, infl) == SubSeq(q, Pulled(q, infl) + 1, Len(q))

AccInit ==
    /\ acc_pc = "fetch"
    /\ account = NoAccount
    /\ sys_res = "unset"
    /\ tok_res = NoTokRes
    /\ parsed = "pending"
    /\ token_accounts = << >>
    /\ queue = << >>
    /\ inflight = {}
    /\ acc_cause = "none"
    /\ sym_hist = {}
    /\ tok_log = << >>
    /\ tok_mint = NoFetch
    /\ listed = << >>

\* handler: client.get_account(..).await.unwrap()
AccFetch ==
    /\ AccFrame
    /\ acc_pc = "fetch"
    /\ \/ /\ acc_pc' = "fetch_failed"
          /\ UNCHANGED account
       \/ \E a \in Accounts :
            /\ ValidAccount(a)
            /\ account' = a
            /\ acc_pc' = "system"
    /\ UNCHANGED <<sys_res, tok_res, parsed, token_accounts, queue, inflight,
                   acc_cause, sym_hist, tok_log, tok_mint, listed>>

\* SystemAccount::parse: the owner check
SysOwnerCheck ==
    /\ AccFrame
    /\ acc_pc = "system"
    /\ IF account.owner # "system"
       THEN /\ sys_res' = "None"
            /\ acc_pc' = "token"
       ELSE /\ acc_pc' = "keg_list"
            /\ UNCHANGED sys_res
    /\ UNCHANGED <<account, tok_res, parsed, token_accounts, queue, inflight,
                   acc_cause, sym_hist, tok_log, tok_mint, listed>>

\* what follows a stream once it is drained: the token22 list query after the
\* tokenkeg stream; after the token22 stream the sort and the return
AfterStream(gen, ta) ==
    IF gen = "keg"
    THEN /\ acc_pc' = "t22_list"
         /\ token_accounts' = ta
         /\ UNCHANGED sys_res
    ELSE /\ acc_pc' = "token"
         /\ token_accounts' = SortBy(ta)
         /\ sys_res' = "Some"

StreamOf(pc) == IF pc \in {"keg_list", "keg_stream"} THEN "keg" ELSE "t22"

\* SystemAccount::parse: get_token_accounts_by_owner(..).await.unwrap() for one
\* token program, and the start of its buffer_unordered stream
SysList ==
    /\ AccFrame
    /\ acc_pc \in {"keg_list", "t22_list"}
    /\ \/ /\ acc_pc' = "panic"
          /\ acc_cause' = "list_query"
          /\ UNCHANGED <<queue, inflight, token_accounts, sys_res, listed>>
       \/ \E n \in 0..(MaxAccounts - Len(token_accounts)) :
            /\ UNCHANGED acc_cause
            /\ listed' = listed \o ListResult(StreamOf(acc_pc), n)
            /\ IF n = 0
               THEN /\ AfterStream(StreamOf(acc_pc), token_accounts)
                    /\ UNCHANGED <<queue, inflight>>
               ELSE /\ inflight' = FillInflight(ListResult(StreamOf(acc_pc), n), {})
                    /\ queue' = FillQueue(ListResult(StreamOf(acc_pc), n), {})
                    /\ acc_pc' = IF acc_pc = "keg_list" THEN "keg_stream" ELSE "t22_stream"
                    /\ UNCHANGED <<token_accounts, sys_res>>
    /\ UNCHANGED <<account, tok_res, parsed, sym_hist, tok_log, tok_mint>>

\* a stream that ends as soon as it has no future left to pull
StreamDrainedEarly(q, infl) == q = << >>

\* BufferUnordered::poll_next gives None, which ends collect(), when the
\* stream of futures is exhausted and no future is in progress
StreamDrained(q, infl) == FillInflight(q, infl) = {}

\* a resolution yields its TokenAccountBalance: collect() pushes it, the
\* stream pulls the next future, and the code after the stream runs once the
\* stream is drained
Collect(t, symbol, h) ==
    /\ sym_hist' = sym_hist \cup {h}
    /\ inflight' = FillInflight(queue, inflight \ {t})
    /\ queue' = FillQueue(queue, inflight \ {t})
    /\ IF StreamDrained(queue, inflight \ {t})
       THEN AfterStream(StreamOf(acc_pc),
                        Append(token_accounts, TokenAccountBalance(t.key, symbol)))
       ELSE /\ token_accounts' = Append(token_accounts, TokenAccountBalance(t.key, symbol))
            /\ UNCHANGED <<acc_pc, sys_res>>

\* get_symbol_for_token_account: the metadata-record fetch completes
SymMetaDone ==
    /\ AccFrame
    /\ acc_pc \in {"keg_stream", "t22_stream"}
    /\ \E t \in inflight, o \in MetaOutcomes :
        /\ t.phase = "meta"
        /\ CASE o.kind = "ok" ->
                  /\ Collect(t, SomeSymbol(o.symbol),
                             SymRecord(t.key, t.key.gen, "ok", SomeSymbol(o.symbol),
                                       "none", FALSE, 0, SomeSymbol(o.symbol)))
                  /\ UNCHANGED acc_cause
             [] o.kind = "bad" ->
                  /\ acc_pc' = "panic"
                  /\ acc_cause' = "sym_meta_decode"
                  /\ UNCHANGED <<inflight, queue, token_accounts, sys_res, sym_hist>>
             [] o.kind = "err" ->
                  /\ inflight' = (inflight \ {t}) \cup {[key |-> t.key, phase |-> "mint"]}
                  /\ UNCHANGED <<acc_pc, acc_cause, queue, token_accounts, sys_res,
                                 sym_hist>>
    /\ UNCHANGED <<account, tok_res, parsed, tok_log, tok_mint, listed>>

\* get_symbol_for_token_account: the mint fetch made when the first source gave
\* nothing completes
SymMintDone ==
    /\ AccFrame
    /\ acc_pc \in {"keg_stream", "t22_stream"}
    /\ \E t \in inflight, o \in SymMintOutcomes :
        /\ t.phase = "mint"
        /\ o \in MintOutcomesOf(t.key.gen)
        /\ CASE o.kind = "ok" ->
                  /\ Collect(t, o.inline,
                             SymRecord(t.key, t.key.gen, "err", NoSymbol,
                                       IF o.inline.some THEN "inline" ELSE "plain",
                                       TRUE, 1, o.inline))
                  /\ UNCHANGED acc_cause
             [] o.kind = "err" ->
                  /\ acc_pc' = "panic"
                  /\ acc_cause' = "sym_mint_fetch"
                  /\ UNCHANGED <<inflight, queue, token_accounts, sys_res, sym_hist>>
             [] o.kind = "bad" ->
                  /\ acc_pc' = "panic"
                  /\ acc_cause' = "sym_mint_unpack"
                  /\ UNCHANGED <<inflight, queue, token_accounts, sys_res, sym_hist>>
    /\ UNCHANGED <<account, tok_res, parsed, tok_log, tok_mint, listed>>

\* the unpack calls TokenProgramAccount::parse makes on account.data: none for
\* an owner that is no token program, the mint one only after the account one
\* failed
UnpackAttempts(a) ==
    IF a.owner \notin {"tokenkeg", "token22"} THEN << >>
    ELSE IF a.shape = "account" THEN <<"unpack_account">>
    ELSE <<"unpack_account", "unpack_mint">>

\* TokenProgramAccount::parse up to its first fetch: the owner check and the
\* unpack attempts
TokParse ==
    /\ AccFrame
    /\ acc_pc = "token"
    /\ UNCHANGED <<tok_mint, listed>>
    /\ IF account.owner \in {"tokenkeg", "token22"} /\ account.shape = "account"
       THEN /\ acc_pc' = "tok_mint"
            /\ tok_log' = tok_log \o UnpackAttempts(account) \o <<"mint">>
            /\ UNCHANGED tok_res
       ELSE /\ acc_pc' = "combine"
            /\ tok_log' = tok_log \o UnpackAttempts(account)
            /\ tok_res' =
                 IF account.owner = "tokenkeg" /\ account.shape = "mint"
                 THEN TokRes("TokenkegMint", 0, NoSymbol, << >>)
                 ELSE IF account.owner = "token22" /\ account.shape \in {"mint", "mint_ext"}
                 THEN TokRes("Token22Mint", 0, NoSymbol, account.extensions)
                 ELSE TokRes("None", 0, NoSymbol, << >>)
    /\ UNCHANGED <<account, sys_res, parsed, token_accounts, queue, inflight,
                   acc_cause, sym_hist>>

\* the decimals taken to be 9 whatever the mint says
AssumedDecimals(o) == 9

\* mint_account.decimals of the fetched mint
MintDecimals(o) == o.decimals

\* the mint fetch recovered: on a failure parse goes on to return None
TokAfterMintRecovered(o) == IF o.kind = "ok" THEN "tok_meta" ELSE "combine"

\* where parse goes after get_account_data(&token_account.mint).await.unwrap()
\* and the unpack(..).unwrap() of the mint
TokAfterMint(o) == IF o.kind = "ok" THEN "tok_meta" ELSE "panic"

\* TokenProgramAccount::parse: the fetch of the mint completes
TokMintDone ==
    /\ AccFrame
    /\ acc_pc = "tok_mint"
    /\ \E o \in MintOutcomesOf(GenOf(account.owner)) :
        /\ tok_mint' = o
        /\ acc_pc' = TokAfterMint(o)
        /\ IF o.kind = "ok"
           THEN /\ tok_res' = TokRes("pending", MintDecimals(o), o.inline, << >>)
                /\ tok_log' = Append(tok_log, "meta")
                /\ UNCHANGED acc_cause
           ELSE /\ acc_cause' = IF o.kind = "err" THEN "tok_mint_fetch"
                                ELSE "tok_mint_unpack"
                /\ UNCHANGED <<tok_res, tok_log>>
    /\ UNCHANGED <<account, sys_res, parsed, token_accounts, queue, inflight,
                   sym_hist, listed>>

\* the symbol TokenProgramAccount::parse settles on: the record's symbol; for
\* Token22 the inline TokenMetadata symbol when the record gave none
TokSymbol(owner, o, inline) ==
    IF o.kind = "ok" THEN SomeSymbol(o.symbol)
    ELSE IF owner = "token22" THEN inline
    ELSE NoSymbol

\* TokenProgramAccount::parse: the metadata-record fetch completes
TokMetaDone ==
    /\ AccFrame
    /\ acc_pc = "tok_meta"
    /\ \E o \in MetaOutcomes :
        IF o.kind = "bad"
        THEN /\ acc_pc' = "panic"
             /\ acc_cause' = "tok_meta_decode"
             /\ UNCHANGED <<tok_res, sym_hist>>
        ELSE /\ tok_res' = TokRes(IF account.owner = "tokenkeg"
                                  THEN "TokenkegToken" ELSE "Token22Token",
                                  tok_res.decimals,
                                  TokSymbol(account.owner, o, tok_res.symbol), << >>)
             /\ sym_hist' = sym_hist \cup
                    {SymRecord(TokenKey("self", 0), GenOf(account.owner), o.kind,
                               IF o.kind = "ok" THEN SomeSymbol(o.symbol) ELSE NoSymbol,
                               IF tok_res.symbol.some THEN "inline" ELSE "plain",
                               account.owner = "token22" /\ o.kind # "ok", 0,
                               TokSymbol(account.owner, o, tok_res.symbol))}
             /\ acc_pc' = "combine"
             /\ UNCHANGED acc_cause
    /\ UNCHANGED <<account, sys_res, parsed, token_accounts, queue, inflight, tok_log,
                   tok_mint, listed>>

\* parse_account: system.or(token).or_else(|| Some(Other)).unwrap()
ParsedVariant(sys, tok) ==
    IF sys = "Some" THEN "System"
    ELSE IF tok.variant # "None" THEN "TokenProgram"
    ELSE "Other"

AccCombine ==
    /\ AccFrame
    /\ acc_pc = "combine"
    /\ parsed' = ParsedVariant(sys_res, tok_res)
    /\ acc_pc' = "display"
    /\ UNCHANGED <<account, sys_res, tok_res, token_accounts, queue, inflight,
                   acc_cause, sym_hist, tok_log, tok_mint, listed>>

-----------------------------------------------------------------------------
(* account/system.rs: the two buffer_unordered streams of                  *)
(* SystemAccount::parse with the resolutions counted instead of named, so  *)
(* that wallets with more token accounts than BufferLimit are explored.    *)

FanInit ==
    /\ fan_pc = "keg_list"
    /\ fan_queue = 0
    /\ fan_meta = 0
    /\ fan_mint = 0
    /\ fan_collected = 0

FanAfter(pc) == IF pc \in {"keg_list", "keg_stream"} THEN "t22_list" ELSE "sorted"

\* the futures the stream pulls when q are queued and n are in progress
FanPulled(q, n) == Min(q, Room(n))

\* get_token_accounts_by_owner(..).await.unwrap() and the start of the stream
FanList ==
    /\ FanFrame
    /\ fan_pc \in {"keg_list", "t22_list"}
    /\ \/ /\ fan_pc' = "panic"
          /\ UNCHANGED <<fan_queue, fan_meta>>
       \/ \E n \in 0..MaxFan :
            /\ fan_meta' = FanPulled(n, 0)
            /\ fan_queue' = n - FanPulled(n, 0)
            /\ fan_pc' = IF n = 0 THEN FanAfter(fan_pc)
                         ELSE IF fan_pc = "keg_list" THEN "keg_stream" ELSE "t22_stream"
    /\ UNCHANGED <<fan_mint, fan_collected>>

\* a resolution yields: collect() pushes, the stream pulls the next future
FanCollect(meta, mint) ==
    /\ fan_collected' = fan_collected + 1
    /\ fan_meta' = meta + FanPulled(fan_queue, meta + mint)
    /\ fan_mint' = mint
    /\ fan_queue' = fan_queue - FanPulled(fan_queue, meta + mint)
    /\ fan_pc' = IF meta + mint + fan_queue = 0 THEN FanAfter(fan_pc) ELSE fan_pc

\* get_symbol_for_token_account: a metadata-record fetch completes
FanMetaDone ==
    /\ FanFrame
    /\ fan_pc \in {"keg_stream", "t22_stream"}
    /\ fan_meta > 0
    /\ \/ FanCollect(fan_meta - 1, fan_mint)
       \/ /\ fan_meta' = fan_meta - 1
          /\ fan_mint' = fan_mint + 1
          /\ UNCHANGED <<fan_pc, fan_queue, fan_collected>>
       \/ /\ fan_pc' = "panic"
          /\ UNCHANGED <<fan_queue, fan_meta, fan_mint, fan_collected>>

\* get_symbol_for_token_account: a mint fetch completes
FanMintDone ==
    /\ FanFrame
    /\ fan_pc \in {"keg_stream", "t22_stream"}
    /\ fan_mint > 0
    /\ \/ FanCollect(fan_meta, fan_mint - 1)
       \/ /\ fan_pc' = "panic"
          /\ UNCHANGED <<fan_queue, fan_meta, fan_mint, fan_collected>>

-----------------------------------------------------------------------------
(* block/mod.rs                                                            *)

\* Option<u64> as a set: {} is None, {e} is Some(e)
NoEnd == {}
NoDisplay == [shown |-> FALSE, vote |-> 0, nonvote |-> 0, total |-> 0,
              compute_units |-> 0]

\* for attempt in 1..=5
MaxAttempts == 5

\* block.end.unwrap_or(block.start)
LastSlot(args) ==
    IF args.end = NoEnd THEN args.start ELSE CHOOSE e \in args.end : TRUE

\* a transaction of a fetched block:
\*   "ok"           it decodes and has meta with compute_units_consumed
\*   "undecodable"  tx.transaction.decode() is None
\*   "nometa"       tx.meta is None
\*   "nounits"      compute_units_consumed is not Some
BlockTxs ==
    {[kind |-> "ok", ixs |-> x, units |-> u] : x \in InstructionLists, u \in ComputeUnits}
    \cup {[kind |-> k, ixs |-> << >>, units |-> 0] :
            k \in {"undecodable", "nometa", "nounits"}}

\* a fetched UiConfirmedBlock.  The request asks for rewards and for full
\* transaction details, so rewards and transactions are Some; has_fee tells
\* whether the reward list holds an entry of type Fee.
Blocks == [has_fee : BOOLEAN, txs : SeqsUpTo(BlockTxs, MaxTxs)]

\* no block was fetched yet
NoBlock == [fetched |-> FALSE, slot |-> 0, block |-> [has_fee |-> FALSE, txs |-> << >>]]

\* the vote test without the count of the instructions
IsVoteFirstInstruction(tx) == Len(tx.ixs) >= 1 /\ tx.ixs[1] = "vote"

\* ixs.len() == 1 && *ixs[0].program_id(..) == vote::program::ID
IsVote(tx) == Len(tx.ixs) = 1 /\ tx.ixs[1] = "vote"

\* the first unwrap that panics on a fetched block, "none" if none does:
\* ParsedBlock::new on a reward list without a Fee entry, then per transaction
\* decode().unwrap(), meta.unwrap() and the unwrap of compute_units_consumed
BlockPanic(b) ==
    IF ~b.has_fee THEN "no_fee_reward"
    ELSE IF \E k \in 1..Len(b.txs) : b.txs[k].kind # "ok"
    THEN (b.txs[CHOOSE k \in 1..Len(b.txs) :
                  /\ b.txs[k].kind # "ok"
                  /\ \A j \in 1..(k - 1) : b.txs[j].kind = "ok"]).kind
    ELSE "none"

\* the counters of the header table
BlockDisplay(b) ==
    [shown |-> TRUE,
     vote |-> Cardinality({k \in 1..Len(b.txs) : IsVote(b.txs[k])}),
     nonvote |-> Cardinality({k \in 1..Len(b.txs) : ~IsVote(b.txs[k])}),
     total |-> Len(b.txs),
     compute_units |-> SumSeq([k \in 1..Len(b.txs) |-> b.txs[k].units])]

BlkInit ==
    /\ blk_args \in [start : 0..MaxSlot,
                     end : {NoEnd} \cup {{e} : e \in 0..MaxSlot}]
    /\ slot = blk_args.start
    /\ attempt = 1
    /\ blk_pc = IF blk_args.start > LastSlot(blk_args) THEN "done" ELSE "loop"
    /\ blk_fetches = [s \in 0..MaxSlot |-> 0]
    /\ blk_notices = [s \in 0..MaxSlot |-> 0]
    /\ blk_gaveup = {}
    /\ blk_shown = [s \in 0..MaxSlot |-> NoDisplay]
    /\ blk_order = << >>
    /\ blk_cause = "none"
    /\ blk_last = NoBlock

\* continue 'slots, or the end of the inner loop: the next slot of the range
NextSlot ==
    /\ attempt' = 1
    /\ IF slot + 1 > LastSlot(blk_args)
       THEN /\ blk_pc' = "done"
            /\ UNCHANGED slot
       ELSE /\ slot' = slot + 1
            /\ UNCHANGED blk_pc

\* one iteration of `for attempt in 1..=5`: the fetch and what follows it
BlkAttempt ==
    /\ BlkFrame
    /\ blk_pc = "loop"
    /\ blk_fetches' = [blk_fetches EXCEPT ![slot] = @ + 1]
    /\ blk_order' = IF blk_fetches[slot] = 0 THEN Append(blk_order, slot) ELSE blk_order
    /\ \/ \* Err: the notice, then `continue`
          /\ blk_notices' = [blk_notices EXCEPT ![slot] = @ + 1]
          /\ IF attempt < MaxAttempts
             THEN /\ attempt' = attempt + 1
                  /\ UNCHANGED <<blk_pc, slot, blk_gaveup>>
             ELSE /\ blk_gaveup' = blk_gaveup \cup {slot}
                  /\ NextSlot
          /\ UNCHANGED <<blk_shown, blk_cause, blk_last>>
       \/ \* Ok(fetched_block)
          \E b \in Blocks :
            /\ blk_last' = [fetched |-> TRUE, slot |-> slot, block |-> b]
            /\ IF BlockPanic(b) # "none"
               THEN /\ blk_pc' = "panic"
                    /\ blk_cause' = BlockPanic(b)
                    /\ UNCHANGED <<slot, attempt, blk_shown>>
               ELSE /\ blk_shown' = [blk_shown EXCEPT ![slot] = BlockDisplay(b)]
                    /\ NextSlot
                    /\ UNCHANGED blk_cause
            /\ UNCHANGED <<blk_notices, blk_gaveup>>
    /\ UNCHANGED blk_args

-----------------------------------------------------------------------------
(* utils.rs                                                                *)

\* the characters of a decimal digit
DigitChars == <<"0", "1", "2", "3", "4", "5", "6", "7", "8", "9">>

\* u64::to_string
RECURSIVE to_string(_)
to_string(n) ==
    IF n < 10 THEN <<DigitChars[n + 1]>>
    ELSE Append(to_string(n \div 10), DigitChars[(n % 10) + 1])

\* the separator test with the position counted from the left
NeedsCommaFromLeft(i, len) == i > 0 /\ i % 3 = 0

\* if i > 0 && (before_decimal.len() - i) % 3 == 0
NeedsComma(i, len) == i > 0 /\ (len - i) % 3 = 0

\* for (i, ch) in before_decimal.chars().enumerate() { .. result.push(ch) }
InsertCommas(before_decimal) ==
    Flatten([j \in 1..Len(before_decimal) |->
                IF NeedsComma(j - 1, Len(before_decimal))
                THEN <<",", before_decimal[j]>>
                ELSE <<before_decimal[j]>>])

\* for _ in 0..zeros_to_prepend { result.push('0') }
Zeros(n) == [k \in 1..n |-> "0"]

display_balance(atoms, decimals) ==
    LET atoms_str == to_string(atoms)
        len == Len(atoms_str)
    IN  IF len > decimals
        THEN InsertCommas(SubSeq(atoms_str, 1, len - decimals))
             \o <<".">> \o SubSeq(atoms_str, len - decimals + 1, len)
        ELSE <<"0", ".">> \o Zeros(decimals - len) \o atoms_str

\* display_balance is not called
BalInit ==
    /\ bal_pc = "idle"
    /\ bal_atoms = 0
    /\ bal_decimals = 0
    /\ bal_out = << >>

\* print_token_account / print_mint_account: display_balance(balance, decimals as usize)
BalDisplay ==
    /\ BalFrame
    /\ bal_pc = "call"
    /\ bal_out' = display_balance(bal_atoms, bal_decimals)
    /\ bal_pc' = "done"
    /\ UNCHANGED <<bal_atoms, bal_decimals>>

-----------------------------------------------------------------------------
(* The claims about transaction/mod.rs.                                    *)

EnvelopeComplete == envelope.meta /\ envelope.block_time /\ envelope.version

\* the (0-based) static positions of the decoded message
StaticPositions == 0..(message.nkeys - 1)

\* per processed lookup, the number of entries it should have contributed
ResolvedCounts ==
    [i \in 1..Len(tx_outcomes) |->
        IF tx_outcomes[i] = "ok"
        THEN Len(message.lookups[i].writable_indexes)
             + Len(message.lookups[i].readonly_indexes)
        ELSE 0]

\* per processed lookup, the pubkeys it should have contributed
ResolvedKeys ==
    [i \in 1..Len(tx_outcomes) |->
        IF tx_outcomes[i] = "ok"
        THEN [k \in 1..Len(message.lookups[i].writable_indexes
                            \o message.lookups[i].readonly_indexes) |->
                TableAddress(i, (message.lookups[i].writable_indexes
                                 \o message.lookups[i].readonly_indexes)[k])]
        ELSE << >>]

\* C1: the account list returned for a V0 message holds the static accounts
\* first and then exactly the entries of the lookups that resolved: its length
\* is the static count plus the sum of w_i + r_i over the resolved lookups, a
\* failed lookup adds nothing and leaves the entries of the others as they are.
C1_ResolvedLength ==
    (tx_result = "Some" /\ message.kind = "V0") =>
        /\ Len(tx_outcomes) = Len(message.lookups)
        /\ Len(accounts) = message.nkeys + SumSeq(ResolvedCounts)
        /\ Len(accounts) >= message.nkeys
        /\ \A j \in 1..message.nkeys : accounts[j].pubkey = StaticKey(j - 1)
        /\ [j \in 1..(Len(accounts) - message.nkeys) |->
                accounts[message.nkeys + j].pubkey] = Flatten(ResolvedKeys)

C1_Witness ==
    /\ tx_result = "Some"
    /\ message.kind = "V0"
    /\ \E i, j \in 1..Len(tx_outcomes) :
          /\ tx_outcomes[i] = "ok"
          /\ tx_outcomes[j] # "ok"
          /\ Len(message.lookups[j].writable_indexes) > 0

\* C2 (as amended): for a Legacy message the returned list is the static list
\* in message order, no account is fetched, entry i is a signer exactly when
\* i < num_required_signatures, and it is writable exactly when i lies in the
\* header's writable ranges and the key is not one the SDK demotes.
C2_LegacyAccounts ==
    (tx_result = "Some" /\ message.kind = "Legacy") =>
        /\ Len(accounts) = message.nkeys
        /\ tx_fetches = 0
        /\ \A i \in StaticPositions :
              /\ accounts[i + 1].pubkey = StaticKey(i)
              /\ accounts[i + 1].is_signer <=> (i < message.nsig)
              /\ accounts[i + 1].is_writable <=>
                    /\ \/ i < message.nsig - message.nros
                       \/ (i >= message.nsig /\ i < message.nkeys - message.nrou)
                    /\ i \notin message.demoted

C2_Witness ==
    /\ tx_result = "Some"
    /\ message.kind = "Legacy"
    /\ message.nkeys = 2
    /\ message.nsig = 1
    /\ message.nrou = 0
    /\ message.demoted = {1}
    /\ ~accounts[2].is_writable

\* C2 as stated: ... entry i is writable exactly when i lies in the writable
\* ranges declared by the message header.
C2_Original ==
    (tx_result = "Some" /\ message.kind = "Legacy") =>
        /\ Len(accounts) = message.nkeys
        /\ tx_fetches = 0
        /\ \A i \in StaticPositions :
              /\ accounts[i + 1].pubkey = StaticKey(i)
              /\ accounts[i + 1].is_signer <=> (i < message.nsig)
              /\ accounts[i + 1].is_writable <=>
                    \/ i < message.nsig - message.nros
                    \/ (i >= message.nsig /\ i < message.nkeys - message.nrou)

\* C3: every entry appended by a lookup expansion is no signer; it is writable
\* when it was appended for a writable index and read-only when it was
\* appended for a read-only index.
C3_ExpandedFlags ==
    (tx_result = "Some" /\ message.kind = "V0") =>
        /\ Len(tx_origin) = Len(accounts) - message.nkeys
        /\ \A j \in 1..Len(tx_origin) :
              /\ ~accounts[message.nkeys + j].is_signer
              /\ accounts[message.nkeys + j].is_writable <=> (tx_origin[j].group = "w")

C3_Witness ==
    /\ tx_result = "Some"
    /\ message.kind = "V0"
    /\ \E j, k \in 1..Len(tx_origin) :
          /\ tx_origin[j].group = "w"
          /\ tx_origin[k].group = "r"

\* C5: parse_transaction returns None when the envelope lacks meta, block time
\* or version, before decoding and before any lookup-table fetch; when all
\* three are present and the message decodes, it returns a ParsedTransaction.
C5_EarlyReturnAndSuccess ==
    /\ (tx_pc \notin {"fetch", "fetch_failed", "parse"} /\ ~EnvelopeComplete) =>
          /\ tx_result = "None"
          /\ ~tx_decoded
          /\ tx_fetches = 0
    /\ (EnvelopeComplete /\ message # NoMessage
            /\ tx_pc \in {"returned", "viewed", "panic"}) =>
          tx_result = "Some"

\* the entries of the returned list that follow the static ones, each with the
\* lookup it was expanded from
Expanded ==
    [j \in 1..(Len(accounts) - message.nkeys) |->
        [from |-> tx_origin[j].lookup,
         pubkey |-> accounts[message.nkeys + j].pubkey,
         is_writable |-> accounts[message.nkeys + j].is_writable]]

\* the entries expanded from lookup i, in the order they have in the list
ExpandedFrom(i) == SelectSeq(Expanded, LAMBDA e : e.from = i)

\* what lookup i declares: its writable indexes, then its read-only indexes,
\* each index with the address the table holds at that position
Declared(i) ==
    [k \in 1..Len(message.lookups[i].writable_indexes) |->
        [from |-> i,
         pubkey |-> TableAddress(i, message.lookups[i].writable_indexes[k]),
         is_writable |-> TRUE]]
    \o
    [k \in 1..Len(message.lookups[i].readonly_indexes) |->
        [from |-> i,
         pubkey |-> TableAddress(i, message.lookups[i].readonly_indexes[k]),
         is_writable |-> FALSE]]

\* C13: in the list returned for a V0 message the entries of lookup A precede
\* those of lookup B when A precedes B in the message; the entries of one
\* lookup are those of its writable indexes and then those of its read-only
\* indexes, each group in declared order, and the entry for index idx is the
\* table's address at position idx.
C13_LookupOrder ==
    (tx_result = "Some" /\ message.kind = "V0") =>
        /\ Len(tx_origin) = Len(accounts) - message.nkeys
        /\ \A j, k \in 1..Len(Expanded) : j < k => Expanded[j].from <= Expanded[k].from
        /\ \A i \in 1..Len(message.lookups) :
              ExpandedFrom(i) = IF tx_outcomes[i] = "ok" THEN Declared(i) ELSE << >>

C13_Witness ==
    /\ tx_result = "Some"
    /\ message.kind = "V0"
    /\ Len(message.lookups) = 2
    /\ tx_outcomes = <<"ok", "ok">>
    /\ message.lookups[1].writable_indexes = <<1, 0>>
    /\ message.lookups[1].readonly_indexes = <<0>>
    /\ message.lookups[2].writable_indexes = <<0>>
    /\ message.lookups[2].readonly_indexes = <<1, 0>>

\* C14: the list returned for a V0 message is the static accounts, then the
\* writable expansions of all lookups, then the read-only expansions of all
\* lookups: every writable expanded entry precedes every read-only expanded
\* entry.
C14_CanonicalOrder ==
    (tx_result = "Some" /\ message.kind = "V0") =>
        \A j, k \in 1..(Len(accounts) - message.nkeys) :
            (j < k /\ accounts[message.nkeys + k].is_writable) =>
                accounts[message.nkeys + j].is_writable

\* C15: no failure of one lookup aborts the resolution: a table that cannot be
\* fetched, data that is no lookup table, or a declared index outside the
\* table's address array makes parse_transaction skip that lookup, go on with
\* the remaining ones and return a ParsedTransaction.
C15_LookupFailureSkipped ==
    /\ tx_pc = "panic" => (tx_result = "None" \/ message = NoMessage)
    /\ (message # NoMessage /\ tx_pc \in {"returned", "viewed"}) =>
          /\ tx_result = "Some"
          /\ Len(tx_outcomes) = Len(message.lookups)

-----------------------------------------------------------------------------
(* The claims about the account inspection.                                *)

\* the variant the owner and the data shape call for
ExpectedVariant(a) ==
    IF a.owner = "system" THEN "System"
    ELSE IF a.owner = "tokenkeg" /\ a.shape \in {"account", "mint"} THEN "TokenProgram"
    ELSE IF a.owner = "token22" /\ a.shape \in {"account", "mint", "mint_ext"}
    THEN "TokenProgram"
    ELSE "Other"

\* C4: parse_account is exhaustive and deterministic: for every fetched
\* account it produces exactly one variant and never fails, the variant is a
\* function of owner and data, and what is no recognised shape yields Other.
C4_TotalClassification ==
    /\ acc_pc # "panic"
    /\ acc_pc = "display" =>
          /\ parsed \in {"System", "TokenProgram", "Other"}
          /\ parsed = ExpectedVariant(account)

\* C6: symbol resolution never fails: a failed metadata fetch, a record that
\* does not decode, or a failed fetch of the mint made for the inline source
\* gives an absent symbol and aborts neither the classification nor the
\* aggregation.
C6_SymbolNeverFails ==
    /\ acc_cause \notin {"sym_meta_decode", "sym_mint_fetch", "tok_meta_decode"}
    /\ \A h \in sym_hist : (h.meta = "err" /\ h.mint # "inline") => ~h.symbol.some

\* C7: at most 10 symbol resolutions (and so at most 10 metadata / mint
\* fetches) are in flight at once, whatever the number of token accounts and
\* whatever the order in which the fetches complete.
C7_AtMostTenInFlight == fan_meta + fan_mint <= 10

C7_Witness ==
    /\ fan_meta + fan_mint = 10
    /\ fan_mint > 0
    /\ fan_queue > 0
    /\ fan_collected > 0

\* a <= b in byte-wise lexicographic order
LexLeq(a, b) ==
    \/ /\ Len(a) <= Len(b)
       /\ \A k \in 1..Len(a) : a[k] = b[k]
    \/ \E k \in 1..Min(Len(a), Len(b)) :
          /\ a[k] < b[k]
          /\ \A j \in 1..(k - 1) : a[j] = b[j]

\* C8: in the token_accounts SystemAccount::parse returns, every entry with a
\* symbol precedes every entry without one, and the entries with a symbol are
\* in non-decreasing byte-wise order of their symbols.
C8_SortedBySymbol ==
    sys_res = "Some" =>
        \A i, j \in 1..Len(token_accounts) :
            i < j =>
                /\ token_accounts[j].symbol.some => token_accounts[i].symbol.some
                /\ (token_accounts[i].symbol.some /\ token_accounts[j].symbol.some) =>
                      LexLeq(token_accounts[i].symbol.str, token_accounts[j].symbol.str)

C8_Witness ==
    /\ sys_res = "Some"
    /\ Len(token_accounts) = 3
    /\ token_accounts[1].symbol = SomeSymbol(<<66>>)
    /\ token_accounts[1].key = TokenKey("t22", 1)
    /\ token_accounts[2].symbol = SomeSymbol(<<97>>)
    /\ token_accounts[3].symbol = NoSymbol
    /\ token_accounts[3].key = TokenKey("keg", 1)

\* the returned entries in the order the list queries gave their accounts
EntryOf(key) ==
    CHOOSE e \in {token_accounts[k] : k \in 1..Len(token_accounts)} : e.key = key
KegCount == Cardinality({k \in 1..Len(token_accounts) : token_accounts[k].key.gen = "keg"})
SubmissionOrder ==
    [k \in 1..Len(token_accounts) |->
        IF k <= KegCount THEN EntryOf(TokenKey("keg", k))
        ELSE EntryOf(TokenKey("t22", k - KegCount))]

\* C9: the returned order does not depend on the order in which the
\* resolutions complete.  The run in which they complete in submission order
\* returns SortBy(SubmissionOrder), so the order is independent of the
\* completion order exactly when every run returns that sequence.
C9_OrderDeterministic ==
    sys_res = "Some" => token_accounts = SortBy(SubmissionOrder)

\* the variant the dispatch on owner and data calls for; the data of a Token22
\* token account may carry extensions
DispatchVariant(a) ==
    IF a.owner = "system" THEN "System"
    ELSE IF a.owner = "tokenkeg" /\ a.shape = "account" THEN "TokenkegToken"
    ELSE IF a.owner = "tokenkeg" /\ a.shape = "mint" THEN "TokenkegMint"
    ELSE IF a.owner = "token22" /\ a.shape \in {"account", "account_ext"}
    THEN "Token22Token"
    ELSE IF a.owner = "token22" /\ a.shape \in {"mint", "mint_ext"} THEN "Token22Mint"
    ELSE "Other"

\* the variant parse_account returned, with the one of the token program
ReturnedVariant == IF parsed = "TokenProgram" THEN tok_res.variant ELSE parsed

\* C16: parse_account dispatches on the owner, first match wins: System for a
\* system-owned account, with no token unpack and no mint fetch made for it;
\* for a tokenkeg-owned one the TokenAccount variant if the data is a token
\* account, else the MintAccount variant if it is a mint, else Other; for a
\* token22-owned one the same with the mint's declared extensions; Other for
\* every other owner.
C16_DispatchOrder ==
    acc_pc = "display" =>
        /\ ReturnedVariant = DispatchVariant(account)
        /\ account.owner = "system" => (tok_log = << >> /\ tok_mint = NoFetch)
        /\ ReturnedVariant = "Token22Mint" => tok_res.extensions = account.extensions

\* C17: when the data of a tokenkeg- or token22-owned account unpacks as a
\* token account and the fetch or the unpack of its mint fails, the inspection
\* aborts: no ParsedAccount is produced, and parse neither tries the mint
\* unpack of the account's own data nor falls back to Other.
C17_MintFailureFatal ==
    tok_mint.kind \in {"err", "bad"} =>
        /\ acc_pc = "panic"
        /\ acc_cause \in {"tok_mint_fetch", "tok_mint_unpack"}
        /\ parsed = "pending"
        /\ tok_res.variant = "unset"
        /\ tok_log = <<"unpack_account", "mint">>

C17_Witness ==
    /\ tok_mint.kind = "err"
    /\ account.owner = "token22"
    /\ account.shape = "account"
    /\ acc_pc = "panic"

\* C18: a TokenAccount variant is produced only after the mint named in the
\* token account has been fetched and unpacked, and the decimals it carries for
\* the display of the balance are those of that mint.
C18_DecimalsFromMint ==
    /\ tok_res.variant \in {"TokenkegToken", "Token22Token"} =>
          /\ tok_mint.kind = "ok"
          /\ tok_res.decimals = tok_mint.decimals
          /\ \E k \in 1..Len(tok_log) : tok_log[k] = "mint"
    /\ tok_mint = NoFetch =>
          (parsed = "TokenProgram" => tok_res.variant \in {"TokenkegMint", "Token22Mint"})

C18_Witness ==
    /\ parsed = "TokenProgram"
    /\ tok_res.variant = "TokenkegToken"
    /\ tok_mint.kind = "ok"
    /\ tok_res.decimals = 0

\* C19: the two symbol sources are tried in order, the first success wins: a
\* record that was fetched and decoded gives the symbol and the inline source is
\* not consulted; the inline symbol is used only when the record gave nothing;
\* the symbol is absent exactly when neither source yields data (the record is
\* not fetched or not decoded, and the mint is not fetched or holds no inline
\* metadata).
C19_FirstSourceWins ==
    /\ \A h \in sym_hist :
          /\ h.meta = "ok" => (h.symbol = h.record /\ ~h.tried_inline)
          /\ h.tried_inline => h.meta # "ok"
          /\ ~h.symbol.some <=> (h.meta # "ok" /\ h.mint # "inline")
    /\ acc_cause \notin {"sym_meta_decode", "tok_meta_decode", "sym_mint_fetch",
                         "sym_mint_unpack"}

\* C20: the inline source is reached for Token22 mints only and costs no
\* fetch: no symbol resolution tries it for a mint of the tokenkeg program,
\* and none issues a fetch to try it.
C20_InlineOnlyToken22 ==
    \A h \in sym_hist : h.tried_inline => (h.gen = "t22" /\ h.inline_fetches = 0)

\* the number of returned entries that belong to one token account
EntriesFor(key) ==
    Cardinality({j \in 1..Len(token_accounts) : token_accounts[j].key = key})

\* C21: SystemAccount::parse sorts and returns only after every launched
\* symbol resolution of both token programs has finished, and the returned
\* token_accounts holds exactly one entry for each token account the two list
\* queries returned: none is dropped, none is duplicated.
C21_WaitsForAll ==
    sys_res = "Some" =>
        /\ inflight = {}
        /\ queue = << >>
        /\ {h.key : h \in sym_hist} = {listed[k] : k \in 1..Len(listed)}
        /\ Len(token_accounts) = Len(listed)
        /\ \A k \in 1..Len(listed) : EntriesFor(listed[k]) = 1

C21_Witness ==
    /\ sys_res = "Some"
    /\ Len(listed) = 3
    /\ listed[1] = TokenKey("keg", 1)
    /\ listed[2] = TokenKey("t22", 1)
    /\ listed[3] = TokenKey("t22", 2)
    /\ token_accounts[1].key = TokenKey("t22", 2)
    /\ token_accounts[3].key = TokenKey("keg", 1)

-----------------------------------------------------------------------------
(* The claims about the block scan.                                        *)

ScanRange == blk_args.start..LastSlot(blk_args)

\* C10: a slot whose fetch fails 5 times in a row is skipped: it is not
\* fetched a 6th time, nothing but failure notices is printed for it, and the
\* scan goes on with the next slot, so every slot of start..=end is attempted,
\* in ascending order.
C10_RetryThenSkip ==
    /\ \A s \in 0..MaxSlot : blk_fetches[s] <= 5
    /\ \A s \in blk_gaveup :
          /\ blk_fetches[s] = 5
          /\ blk_notices[s] = 5
          /\ ~blk_shown[s].shown
    /\ \A k \in 1..Len(blk_order) : blk_order[k] = blk_args.start + k - 1
    /\ blk_pc \in {"done", "panic"} => \A s \in ScanRange : blk_fetches[s] >= 1

\* C11: whatever fails for one slot (the fetch, a block without a Fee reward,
\* a transaction without meta or compute units, a transaction that does not
\* decode), the scan does not abort: it goes on to the next slot, so a scan
\* always ends having attempted every slot of the range, each of them either
\* displayed or given up with its failure notices.
C11_ScanDegrades ==
    /\ blk_cause = "none"
    /\ blk_pc # "panic"
    /\ blk_pc = "done" =>
          \A s \in ScanRange : blk_shown[s].shown \/ s \in blk_gaveup

-----------------------------------------------------------------------------
(* The claims about utils.rs.                                              *)

IsDigit(c) == \E d \in 1..10 : DigitChars[d] = c
DigitValue(c) == (CHOOSE d \in 1..10 : DigitChars[d] = c) - 1

\* the number a sequence of digit characters denotes
RECURSIVE NumberOf(_)
NumberOf(ds) ==
    IF ds = << >> THEN 0
    ELSE 10 * NumberOf(SubSeq(ds, 1, Len(ds) - 1)) + DigitValue(ds[Len(ds)])

\* floor(a / 10^d), by d divisions
RECURSIVE DivPow10(_, _)
DivPow10(a, d) == IF d = 0 THEN a ELSE DivPow10(a \div 10, d - 1)

\* a string without its commas and points
Unseparated(str) == SelectSeq(str, IsDigit)

\* the integer part of the output: what precedes the last bal_decimals + 1 characters
IntegerPart == SubSeq(bal_out, 1, Len(bal_out) - bal_decimals - 1)

\* C12: display_balance(A, D) renders A / 10^D exactly: D digits follow the
\* decimal point; the integer part is the numeral of floor(A / 10^D) (no
\* leading zero, "0" when A < 10^D) with a comma between the groups of three
\* digits counted from the right; without commas and point the output is A
\* left-padded with zeros; A = 1234567890, D = 9 renders "1.234567890".
C12_DisplayBalanceExact ==
    bal_pc = "done" =>
        /\ Len(bal_out) >= bal_decimals + 2
        /\ bal_out[Len(bal_out) - bal_decimals] = "."
        /\ \A k \in (Len(bal_out) - bal_decimals + 1)..Len(bal_out) : IsDigit(bal_out[k])
        /\ \A k \in 1..Len(IntegerPart) :
              IF (Len(IntegerPart) - k + 1) % 4 = 0
              THEN IntegerPart[k] = "," /\ k > 1
              ELSE IsDigit(IntegerPart[k])
        /\ NumberOf(Unseparated(IntegerPart)) = DivPow10(bal_atoms, bal_decimals)
        /\ (Len(IntegerPart) > 1 => IntegerPart[1] # "0")
        /\ NumberOf(Unseparated(bal_out)) = bal_atoms
        /\ (bal_atoms = 1234567890 /\ bal_decimals = 9) =>
              bal_out = <<"1", ".", "2", "3", "4", "5", "6", "7", "8", "9", "0">>

C12_Witness ==
    /\ bal_pc = "done"
    /\ bal_atoms = 1234567890
    /\ bal_decimals = 3
    /\ bal_out = <<"1", ",", "2", "3", "4", ",", "5", "6", "7", ".", "8", "9", "0">>

\* the transactions of txs that hold exactly one instruction, which targets the
\* vote program
RECURSIVE VoteCount(_)
VoteCount(txs) ==
    IF txs = << >> THEN 0
    ELSE VoteCount(Tail(txs))
         + (IF Head(txs).ixs = <<"vote">> THEN 1 ELSE 0)

\* the compute units the transactions of txs consumed
RECURSIVE UnitsTotal(_)
UnitsTotal(txs) ==
    IF txs = << >> THEN 0 ELSE Head(txs).units + UnitsTotal(Tail(txs))

\* C22: for every fetched block whose table is printed, a transaction counts
\* as vote if and only if it holds exactly one instruction and that instruction
\* targets the vote program, and as non-vote otherwise; every transaction is
\* counted once, so vote + nonvote is the number of transactions, and the
\* compute units reported are the sum of the units every transaction consumed.
C22_VoteCountAndUnits ==
    (blk_last.fetched /\ blk_shown[blk_last.slot].shown) =>
        /\ blk_shown[blk_last.slot].vote = VoteCount(blk_last.block.txs)
        /\ blk_shown[blk_last.slot].vote + blk_shown[blk_last.slot].nonvote
              = Len(blk_last.block.txs)
        /\ blk_shown[blk_last.slot].total = Len(blk_last.block.txs)
        /\ blk_shown[blk_last.slot].compute_units = UnitsTotal(blk_last.block.txs)

C22_Witness ==
    /\ blk_last.fetched
    /\ blk_fetches[blk_last.slot] > 1
    /\ Len(blk_last.block.txs) = 2
    /\ blk_last.block.txs[1].ixs = <<"vote">>
    /\ blk_last.block.txs[2].ixs = <<"vote", "vote">>
    /\ blk_shown[blk_last.slot] =
          [shown |-> TRUE, vote |-> 1, nonvote |-> 1, total |-> 2,
           compute_units |-> blk_last.block.txs[1].units
                             + blk_last.block.txs[2].units]

-----------------------------------------------------------------------------
(* The specifications: one per subsystem.  Each starts every subsystem in  *)
(* its initial state and runs one of them.                                 *)

InitAll == TxInit /\ AccInit /\ FanInit /\ BlkInit /\ BalInit

\* the transaction inspection
Init == InitAll /\ blk_args = [start |-> 0, end |-> NoEnd]

Next ==
    \/ TxFetch \/ TxParse \/ TxDecode \/ TxLookup \/ TxBuild \/ TxUnwrap

Spec == Init /\ [][Next]_vars

\* the account inspection
NextAccount ==
    \/ AccFetch \/ SysOwnerCheck \/ SysList \/ SymMetaDone \/ SymMintDone
    \/ TokParse \/ TokMintDone \/ TokMetaDone \/ AccCombine

SpecAccount == Init /\ [][NextAccount]_vars

\* the streams of the wallet aggregation, counted
NextFanOut == FanList \/ FanMetaDone \/ FanMintDone

SpecFanOut == Init /\ [][NextFanOut]_vars

\* the block scan
NextBlock == BlkAttempt

SpecBlock == InitAll /\ [][NextBlock]_vars

\* the block inspection of the single slot 0 (no end given), with every
\* outcome of every fetch
SpecBlockOne == Init /\ [][NextBlock]_vars

\* display_balance, called with every amount and every decimals of the bounds
InitBalance ==
    /\ TxInit /\ AccInit /\ FanInit /\ BlkInit
    /\ blk_args = [start |-> 0, end |-> NoEnd]
    /\ bal_pc = "call"
    /\ bal_atoms \in (0..MaxAtoms) \cup BigAtoms
    /\ bal_decimals \in 0..MaxDecimals
    /\ bal_out = << >>

NextBalance == BalDisplay

SpecBalance == InitBalance /\ [][NextBalance]_vars

====
